---- MODULE Spec2Model ----
(***************************************************************************)
(* A model of AlphaGo/mcts.py: the TreeNode statistics, the MCTS engine    *)
(* (in-tree selection, expansion, the two leaf evaluations, backup), move  *)
(* choice and tree reuse.  Tree nodes and game states are objects in two   *)
(* heaps so that sharing and reachability are properties of the model.     *)
(* The source is Python 2 (dict.values()[0] is indexed), so `/` on two     *)
(* ints is floor division; floats are modelled as exact rationals.         *)
(* The game state and the policy, value and rollout callables are given to *)
(* the engine from outside: the moves are always the same two, the value   *)
(* is the test's 0.5, a rollout is the int 1 or 0.  Under Spec the policy  *)
(* is a function of the position, drawn from a family when the engine is   *)
(* built; under SpecRandom it draws its priors anew at every call, as the  *)
(* policy of the test does.  THRESHOLD is a module global read when the    *)
(* depth test is made: it is 50 under Spec, SpecRandom and SpecLong (one   *)
(* long simulation() call, in which the 51st visit of a node happens) and  *)
(* 0 or 1 under SpecThr, which adds that a running call goes on.           *)
(***************************************************************************)
EXTENDS Integers, Sequences, FiniteSets, TLC

VARIABLES
  nodes,      \* heap of TreeNode objects, a node is its index
  root,       \* self.root
  gstates,    \* heap of GameState objects; self.state is object SelfState
  simState,   \* local `state` of simulation / DFS_in_tree_phase (0: unbound)
  pc,         \* position of the engine's single thread
  simLeft,    \* iterations of the for loop of simulation() still to run
  simDepth,   \* argument L of simulation()
  L,          \* local L of DFS_in_tree_phase
  cur,        \* local `root` of DFS_in_tree_phase
  actions,    \* local `actions` of DFS_in_tree_phase
  visited,    \* local `visited`, most recently visited first
  err,        \* exception raised by the last call ("none": it returned)
  ret,        \* value returned by the last call, as a 1-tuple (None: <<>>)
  lastOp,     \* the last public call made on the engine
  lastArg,    \* the tuple of its arguments
  iterOrder,  \* iteration order of the children dicts
  net,        \* the policy: random, or a table of priors by ply
  thr,        \* the module global THRESHOLD, read by DFS_in_tree_phase
  committed,  \* history: moves committed by successful make_move calls
  firstSel,   \* history: per action, iterations of the last call, simulation(), that chose it first
  simFresh,   \* history: the engine was fresh when the last call, simulation(), was made
  searched,   \* history: a simulation(n>=1, L>=1) returned since the root was set
  expanded,   \* history: the last selection step expanded its node
  extended,   \* history: depth extensions made by the current selection phase
  simCount,   \* history: simulation iterations started so far
  visits0     \* history: nVisits of every node when the current iteration began

vars == <<nodes, root, gstates, simState, pc, simLeft, simDepth, L, cur, actions,
          visited, err, ret, lastOp, lastArg, iterOrder, net, thr, committed,
          firstSel, simFresh, searched, expanded, extended, simCount, visits0>>

----------------------------------------------------------------------------
(* Bounds of the model *)
MaxSims == 2
MaxDepth == 2
MaxCommits == 1
LongSims == 52

\* the loop of a selection phase is followed for at most MaxPath passes; a
\* phase reaches that length only if the depth is extended at every test
MaxPath == MaxDepth + 2 * MaxSims

----------------------------------------------------------------------------
(* Python 2 numbers: f is TRUE for a float; the value is n/d in lowest terms *)

RECURSIVE GCD(_, _)
GCD(a, b) == IF b = 0 THEN a ELSE GCD(b, a % b)

Abs(x) == IF x < 0 THEN -x ELSE x

Norm(n, d, f) ==
  LET g == GCD(Abs(n), d)
  IN  [n |-> n \div g, d |-> d \div g, f |-> f]

PyInt(n) == [n |-> n, d |-> 1, f |-> FALSE]
PyFloat(n, d) == Norm(n, d, TRUE)

NumAdd(a, b) == Norm(a.n * b.d + b.n * a.d, a.d * b.d, a.f \/ b.f)
NumSub(a, b) == Norm(a.n * b.d - b.n * a.d, a.d * b.d, a.f \/ b.f)
NumMul(a, b) == Norm(a.n * b.n, a.d * b.d, a.f \/ b.f)
NumGT(a, b) == a.n * b.d > b.n * a.d
NumEq(a, b) == a.n * b.d = b.n * a.d

\* the exact quotient a/b (b # 0), as a float
TrueDiv(a, b) ==
  IF b.n > 0 THEN Norm(a.n * b.d, a.d * b.n, TRUE)
  ELSE Norm(-(a.n * b.d), a.d * (-b.n), TRUE)

\* Python 2 `a / b` for b # 0: floor division when both operands are ints
PyDiv(a, b) ==
  IF ~a.f /\ ~b.f
  THEN IF b.n > 0 THEN PyInt(a.n \div b.n) ELSE PyInt((-a.n) \div (-b.n))
  ELSE TrueDiv(a, b)

\* LAMBDA of the source (a reserved word here)
Lambda == PyFloat(1, 2)
THRESHOLD == 50

\* None; a value that is returned is the 1-tuple of it
NoneVal == <<>>

----------------------------------------------------------------------------
(* The game state and the three callables handed to the engine *)

Moves == {1, 2}
MoveList == <<1, 2>>

InitState == [history |-> <<>>, current_player |-> 1]

\* GameState.get_legal_moves, as the policy of the test uses it
LegalMoves(s) == MoveList

\* GameState.do_move on the object ref: mutates it in place
DoMove(gs, ref, m) ==
  [gs EXCEPT ![ref] = [history |-> Append(@.history, m),
                       current_player |-> -@.current_player]]

\* GameState.copy: a new independent object
CopyState(gs, ref) == [heap |-> Append(gs, gs[ref]), ref |-> Len(gs) + 1]

SelfState == 1

\* priors the policy may give an action, outcomes of value and rollout
PriorSet == {PyFloat(1, 4), PyFloat(3, 4)}
ValueSet == {PyFloat(1, 2)}
RolloutSet == {PyInt(1), PyInt(0)}

\* the priors a policy network gives the moves of one position: some move
\* has the high prior
NetPriors == {pr \in [Moves -> PriorSet] : \E m \in Moves : pr[m] = PyFloat(3, 4)}

\* the policy networks that are functions of the position: the priors
\* depend on the parity of the number of moves played
Nets == {[random |-> FALSE, table |-> t] : t \in [{1, 2} -> NetPriors]}

\* the policy of the test: priors drawn anew at every call
RandomNet == [random |-> TRUE, table |-> <<>>]

\* the priors pr are an answer of the policy p at position s
Answers(p, s, pr) ==
  IF p.random THEN TRUE
  ELSE pr = p.table[(Len(s.history) % Cardinality(DOMAIN p.table)) + 1]

\* policy_network(state): one (move, prior) pair per legal move, in order
Policy(s, pr) ==
  LET lm == LegalMoves(s) IN [i \in 1..Len(lm) |-> <<lm[i], pr[lm[i]]>>]

----------------------------------------------------------------------------
(* TreeNode *)

TreeNode == [nVisits |-> 0, u_value |-> PyInt(0), Q_value |-> PyInt(0),
             total_value_rewards |-> PyInt(0),
             total_rollout_rewards |-> PyInt(0), children |-> <<>>]

Keys(h, id) == DOMAIN h[id].children

isLeaf(h, id) == Keys(h, id) = {}

\* keys of the children dict in the dict's iteration order
KeyList(h, id) == SelectSeq(iterOrder, LAMBDA a : a \in Keys(h, id))

toValue(h, id) == NumAdd(h[id].Q_value, h[id].u_value)

RECURSIVE expandChildren(_, _, _)
expandChildren(h, id, acts) ==
  IF acts = <<>> THEN h
  ELSE LET a  == Head(acts)[1]
           h1 == Append(h, TreeNode)
           h2 == [h1 EXCEPT ![id].children = (a :> Len(h1)) @@ @]
       IN  expandChildren(h2, id, Tail(acts))

RECURSIVE updateU_from(_, _, _, _)
updateU_from(h, id, acts, index) ==
  IF index > Cardinality(Keys(h, id)) THEN h
  ELSE LET c == h[id].children[acts[index][1]]
           u == PyDiv(acts[index][2], PyInt(1 + h[c].nVisits))
       IN  updateU_from([h EXCEPT ![c].u_value = u], id, acts, index + 1)

\* (variant: the bonus is set for the children never visited only)
updateU_valueUnvisited(h, id, acts) ==
  [c \in 1..Len(h) |->
     IF h[c].nVisits = 0
        /\ \E i \in 1..Len(acts) : h[id].children[acts[i][1]] = c
     THEN LET i == CHOOSE j \in 1..Len(acts) : h[id].children[acts[j][1]] = c
          IN  [h[c] EXCEPT !.u_value = acts[i][2]]
     ELSE h[c]]

updateU_value(h, id, acts) == updateU_from(h, id, acts, 1)

\* (variant: >= in place of >, the last of equal children wins)
RECURSIVE selectionLoopGE(_, _, _, _)
selectionLoopGE(h, id, ks, b) ==
  IF ks = <<>> THEN b
  ELSE LET c == h[id].children[Head(ks)]
       IN  IF ~NumGT(b.maxValue, toValue(h, c))
           THEN selectionLoopGE(h, id, Tail(ks),
                  [node |-> c, action |-> Head(ks), maxValue |-> toValue(h, c)])
           ELSE selectionLoopGE(h, id, Tail(ks), b)

\* the for loop of selection over items, best so far in b
RECURSIVE selectionLoop(_, _, _, _)
selectionLoop(h, id, ks, b) ==
  IF ks = <<>> THEN b
  ELSE LET c == h[id].children[Head(ks)]
       IN  IF NumGT(toValue(h, c), b.maxValue)
           THEN selectionLoop(h, id, Tail(ks),
                  [node |-> c, action |-> Head(ks), maxValue |-> toValue(h, c)])
           ELSE selectionLoop(h, id, Tail(ks), b)

\* selection() on a node with children
selection(h, id) ==
  LET ks == KeyList(h, id)
      c0 == h[id].children[ks[1]]
  IN  selectionLoop(h, id, ks,
        [node |-> c0, action |-> ks[1], maxValue |-> toValue(h, c0)])

\* (variant: only a node without children is counted)
updateVisitsLeafOnly(h, id) ==
  IF isLeaf(h, id) THEN [h EXCEPT ![id].nVisits = @ + 1] ELSE h

\* (variant: the count is incremented by 2)
updateVisitsTwice(h, id) == [h EXCEPT ![id].nVisits = @ + 2]

\* (variant: the count is left as it is)
updateVisitsSkip(h, id) == h

\* (variant: the count is set, not incremented)
updateVisitsSet(h, id) == [h EXCEPT ![id].nVisits = 1]

updateVisits(h, id) == [h EXCEPT ![id].nVisits = @ + 1]

update_value_rewards(h, id, v) ==
  [h EXCEPT ![id].total_value_rewards = NumAdd(@, v)]

update_rollout_rewards(h, id, v) ==
  [h EXCEPT ![id].total_rollout_rewards = NumAdd(@, v)]

RECURSIVE SumQ(_, _, _)
SumQ(h, id, ks) ==
  IF ks = <<>> THEN PyInt(0)
  ELSE NumAdd(SumQ(h, id, SubSeq(ks, 1, Len(ks) - 1)),
              h[h[id].children[ks[Len(ks)]]].Q_value)

backupQ_value(h, id) ==
  PyDiv(SumQ(h, id, KeyList(h, id)), PyInt(Cardinality(Keys(h, id))))

\* the leaf branch of updateQ_value (nVisits # 0)
LeafQ(h, id) ==
  NumAdd(NumMul(NumSub(PyInt(1), Lambda),
                PyDiv(h[id].total_value_rewards, PyInt(h[id].nVisits))),
         NumMul(Lambda,
                PyDiv(h[id].total_rollout_rewards, PyInt(h[id].nVisits))))

\* updateQ_value raises ZeroDivisionError on a leaf that was never visited
updateQ_raises(h, id) == isLeaf(h, id) /\ h[id].nVisits = 0

updateQ_value(h, id) ==
  IF isLeaf(h, id)
  THEN [h EXCEPT ![id].Q_value = LeafQ(h, id)]
  ELSE [h EXCEPT ![id].Q_value = backupQ_value(h, id)]

\* (variant: the visited list is processed root first)
RECURSIVE backupRootFirst(_, _)
backupRootFirst(h, vs) ==
  IF vs = <<>> THEN [heap |-> h, err |-> "none"]
  ELSE IF updateQ_raises(h, vs[Len(vs)])
       THEN [heap |-> h, err |-> "ZeroDivisionError"]
       ELSE backupRootFirst(updateQ_value(h, vs[Len(vs)]),
                            SubSeq(vs, 1, Len(vs) - 1))

\* backup(visited): the nodes updated until the first exception, if any
RECURSIVE backup(_, _)
backup(h, vs) ==
  IF vs = <<>> THEN [heap |-> h, err |-> "none"]
  ELSE IF updateQ_raises(h, Head(vs))
       THEN [heap |-> h, err |-> "ZeroDivisionError"]
       ELSE backup(updateQ_value(h, Head(vs)), Tail(vs))

----------------------------------------------------------------------------
(* MCTS *)

\* (variant: the children are compared by Q_value)
RECURSIVE getMoveLoopQ(_, _, _, _)
getMoveLoopQ(h, id, ks, b) ==
  IF ks = <<>> THEN b
  ELSE LET c == h[id].children[Head(ks)]
       IN  IF NumGT(h[c].Q_value, h[b.node].Q_value)
           THEN getMoveLoopQ(h, id, Tail(ks),
                  [node |-> c, action |-> Head(ks), maxCount |-> h[c].nVisits])
           ELSE getMoveLoopQ(h, id, Tail(ks), b)

\* the loop of get_move over items, best so far in b
RECURSIVE getMoveLoop(_, _, _, _)
getMoveLoop(h, id, ks, b) ==
  IF ks = <<>> THEN b
  ELSE LET c == h[id].children[Head(ks)]
       IN  IF h[c].nVisits > b.maxCount
           THEN getMoveLoop(h, id, Tail(ks),
                  [node |-> c, action |-> Head(ks), maxCount |-> h[c].nVisits])
           ELSE getMoveLoop(h, id, Tail(ks), b)

\* get_move() on a root with children
get_move(h, id) ==
  LET ks == KeyList(h, id)
      c0 == h[id].children[ks[1]]
  IN  getMoveLoop(h, id, ks,
        [node |-> c0, action |-> ks[1], maxCount |-> h[c0].nVisits]).action

\* (variant: visited.append(root))
PushVisitedBack(vs, id) == Append(vs, id)

\* visited.insert(0, root)
PushVisited(vs, id) == <<id>> \o vs

\* (variant: >= in place of >)
ExtendsGE(h, vs, l) == (l = 0) /\ (h[vs[1]].nVisits >= thr)

\* the test after L -= 1 that extends the depth by 2
Extends(h, vs, l) == (l = 0) /\ (h[vs[1]].nVisits > thr)

\* (variant: the node is expanded whether it is a leaf or not)
ExpandAlways(h, id, acts) == expandChildren(h, id, acts)

\* if(root.isLeaf() == True): root.expandChildren(actions)
ExpandIfLeaf(h, id, acts) ==
  IF isLeaf(h, id) THEN expandChildren(h, id, acts) ELSE h

\* (variant: L -= 1 is missing)
BudgetKept(l, ext) == IF ext THEN l + 2 ELSE l

\* L -= 1, then L += 2 when the depth is extended
Budget(l, ext) == IF ext THEN l - 1 + 2 ELSE l - 1

\* (variant: the first child is taken whatever the move)
LookupFirstChild(h, id, move) ==
  IF move \in Keys(h, id)
  THEN [raises |-> FALSE, node |-> h[id].children[KeyList(h, id)[1]]]
  ELSE [raises |-> TRUE, node |-> id]

\* (variant: children.get(move, self.root), no KeyError)
LookupDefault(h, id, move) ==
  IF move \in Keys(h, id)
  THEN [raises |-> FALSE, node |-> h[id].children[move]]
  ELSE [raises |-> FALSE, node |-> id]

\* self.root.children[move] in make_move: the child, or KeyError
Lookup(h, id, move) ==
  IF move \in Keys(h, id)
  THEN [raises |-> FALSE, node |-> h[id].children[move]]
  ELSE [raises |-> TRUE, node |-> id]

\* objects of the state heap still referenced once the locals are gone
Collect(gs) == <<gs[SelfState]>>

\* (variant: state = self.state, no copy)
BindStateAlias(gs) == [heap |-> gs, ref |-> SelfState]

\* state = self.state.copy() in DFS_in_tree_phase
BindState(gs) == CopyState(gs, SelfState)

\* (variant: the root is not replaced)
AdvanceRootStays(r, newroot) == r

\* self.root = newroot in make_move
AdvanceRoot(r, newroot) == newroot

NoSel == [m \in Moves |-> 0]
CallMoves == {0} \cup Moves   \* 0: a move no policy list holds

InitEngine ==
  /\ nodes = <<TreeNode>>
  /\ root = 1
  /\ gstates = <<InitState>>
  /\ simState = 0
  /\ pc = "idle"
  /\ simLeft = 0
  /\ simDepth = 0
  /\ L = 0
  /\ cur = 0
  /\ actions = <<>>
  /\ visited = <<>>
  /\ err = "none"
  /\ ret = NoneVal
  /\ lastOp = "init"
  /\ lastArg = <<>>
  /\ iterOrder \in {<<1, 2>>, <<2, 1>>}
  /\ committed = <<>>
  /\ firstSel = NoSel
  /\ simFresh = FALSE
  /\ searched = FALSE
  /\ expanded = FALSE
  /\ extended = 0
  /\ simCount = 0
  /\ visits0 = <<>>

\* the engine is built over a policy that is a function of the position
Init == InitEngine /\ net \in Nets /\ thr = THRESHOLD

\* the engine is built over the random policy of the test
InitRandom == InitEngine /\ net = RandomNet /\ thr = THRESHOLD

\* values the module global THRESHOLD may be given in place of the source's
ThrSet == {0, 1}

\* the policy networks that give every position the same priors
FlatNets == {p \in Nets : p.table[1] = p.table[2]}

\* the engine is built after THRESHOLD was set to one of these values
InitThr == InitEngine /\ net \in FlatNets /\ thr \in ThrSet

\* an exception leaves simulation(): its frames and their locals are gone
Raise(e) ==
  /\ pc' = "idle"
  /\ err' = e
  /\ ret' = NoneVal
  /\ simLeft' = 0
  /\ simDepth' = 0
  /\ simState' = 0
  /\ gstates' = Collect(gstates)
  /\ L' = 0
  /\ cur' = 0
  /\ actions' = <<>>
  /\ visited' = <<>>
  /\ expanded' = FALSE
  /\ extended' = 0
  /\ visits0' = <<>>

\* the history of the last simulation() ends when another call is made
OtherCall ==
  /\ firstSel' = NoSel
  /\ simFresh' = FALSE

\* the call simulation(n, depth), made while it keeps the iterations
\* started since the engine was built within cap
SimulationUpTo(n, depth, cap) ==
  /\ pc = "idle"
  /\ simCount + n <= cap
  /\ pc' = "loop"
  /\ simLeft' = n
  /\ simDepth' = depth
  /\ lastOp' = "simulation"
  /\ lastArg' = <<n, depth>>
  /\ err' = "none"
  /\ ret' = NoneVal
  /\ simFresh' = (nodes[root] = TreeNode)
  /\ firstSel' = NoSel
  /\ UNCHANGED <<nodes, root, gstates, simState, L, cur, actions, visited,
                 iterOrder, net, thr, committed, searched, expanded, extended,
                 simCount, visits0>>

\* the call simulation(n, depth)
Simulation(n, depth) == SimulationUpTo(n, depth, MaxSims)

\* the head of the for loop: the next DFS_in_tree_phase is entered
\* (visited = [], state = self.state.copy(), root = self.root), or
\* simulation() returns
LoopHead ==
  /\ pc = "loop"
  /\ IF simLeft > 0
     THEN LET cp == BindState(Collect(gstates))
          IN  /\ gstates' = cp.heap
              /\ simState' = cp.ref
              /\ cur' = root
              /\ L' = simDepth
              /\ simCount' = simCount + 1
              /\ pc' = "dfs"
              /\ visits0' = [id \in 1..Len(nodes) |-> nodes[id].nVisits]
              /\ UNCHANGED <<searched, actions, simDepth>>
     ELSE /\ pc' = "idle"
          /\ gstates' = Collect(gstates)
          /\ simState' = 0
          /\ cur' = 0
          /\ L' = 0
          /\ actions' = <<>>
          /\ simDepth' = 0
          /\ searched' = (searched \/ (lastArg[1] >= 1 /\ simDepth >= 1))
          /\ visits0' = <<>>
          /\ UNCHANGED simCount
  /\ visited' = <<>>
  /\ extended' = 0
  /\ UNCHANGED <<nodes, root, simLeft, err, ret, lastOp, lastArg, iterOrder, net,
                 thr, committed, firstSel, simFresh, expanded>>

\* one pass through the body of the while loop of DFS_in_tree_phase, the
\* policy answering with the priors pr
DFSBody(pr) ==
  /\ pc = "dfs"
  /\ L > 0
  /\ Len(visited) < MaxPath
  /\ Answers(net, gstates[simState], pr)
  /\ \E acts \in {Policy(gstates[simState], pr)} :
     \E h1 \in {ExpandIfLeaf(nodes, cur, acts)} :
         IF isLeaf(h1, cur)
         THEN /\ Raise("IndexError")
              /\ nodes' = h1
              /\ UNCHANGED firstSel
         ELSE \E h2 \in {updateU_value(h1, cur, acts)} :
              \E sel \in {selection(h2, cur)} :
              \E h3 \in {updateVisits(h2, sel.node)} :
              \E vs \in {PushVisited(visited, sel.node)} :
              \E ext \in {Extends(h3, vs, L - 1)} :
                  /\ nodes' = h3
                  /\ gstates' = DoMove(gstates, simState, sel.action)
                  /\ cur' = sel.node
                  /\ visited' = vs
                  /\ L' = Budget(L, ext)
                  /\ actions' = acts
                  /\ expanded' = isLeaf(nodes, cur)
                  /\ extended' = IF ext THEN extended + 1 ELSE extended
                  /\ firstSel' = IF visited = <<>>
                                 THEN [firstSel EXCEPT ![sel.action] = @ + 1]
                                 ELSE firstSel
                  /\ UNCHANGED <<simState, pc, simLeft, simDepth, err, ret,
                                 visits0>>
  /\ UNCHANGED <<root, lastOp, lastArg, iterOrder, net, thr, committed, simFresh,
                 searched, simCount>>

\* the while loop ends: DFS_in_tree_phase returns state, visited
DFSReturn ==
  /\ pc = "dfs"
  /\ L <= 0
  /\ pc' = "value"
  /\ cur' = 0
  /\ actions' = <<>>
  /\ expanded' = FALSE
  /\ UNCHANGED <<nodes, root, gstates, simState, simLeft, simDepth, L, visited,
                 err, ret, lastOp, lastArg, iterOrder, net, thr, committed,
                 firstSel, simFresh, searched, extended, simCount, visits0>>

\* value_evaluation(state, visited), the value network answering v
ValueEval(v) ==
  /\ pc = "value"
  /\ IF visited = <<>>
     THEN Raise("IndexError") /\ UNCHANGED nodes
     ELSE \E b \in {backup(update_value_rewards(nodes, visited[1], v), visited)} :
              /\ nodes' = b.heap
              /\ IF b.err # "none"
                 THEN Raise(b.err)
                 ELSE /\ pc' = "rollout"
                      /\ UNCHANGED <<gstates, simState, simLeft, simDepth, L,
                                     cur, actions, visited, err, ret, expanded,
                                     extended, visits0>>
  /\ UNCHANGED <<root, lastOp, lastArg, iterOrder, net, thr, committed, firstSel,
                 simFresh, searched, simCount>>

\* rollout_evaluation(state, visited), the rollout policy answering r
RolloutEval(r) ==
  /\ pc = "rollout"
  /\ IF visited = <<>>
     THEN Raise("IndexError") /\ UNCHANGED nodes
     ELSE \E b \in {backup(update_rollout_rewards(nodes, visited[1], r), visited)} :
              /\ nodes' = b.heap
              /\ IF b.err # "none"
                 THEN Raise(b.err)
                 ELSE /\ pc' = "loop"
                      /\ simLeft' = simLeft - 1
                      /\ UNCHANGED <<gstates, simState, simDepth, L, cur,
                                     actions, visited, err, ret, expanded,
                                     extended, visits0>>
  /\ UNCHANGED <<root, lastOp, lastArg, iterOrder, net, thr, committed, firstSel,
                 simFresh, searched, simCount>>

\* (variant: None is returned on a root without children)
GetMoveDefault ==
  /\ err' = "none"
  /\ ret' = IF isLeaf(nodes, root) THEN NoneVal ELSE <<get_move(nodes, root)>>

\* get_move(): values()[0] raises IndexError on a root without children
GetMoveResult ==
  IF isLeaf(nodes, root)
  THEN err' = "IndexError" /\ ret' = NoneVal
  ELSE err' = "none" /\ ret' = <<get_move(nodes, root)>>

GetMove ==
  /\ pc = "idle"
  /\ GetMoveResult
  /\ lastOp' = "get_move"
  /\ lastArg' = <<>>
  /\ OtherCall
  /\ UNCHANGED <<nodes, root, gstates, simState, pc, simLeft, simDepth, L, cur,
                 actions, visited, iterOrder, net, thr, committed, searched,
                 expanded, extended, simCount, visits0>>

\* make_move(move): root.children[move] raises KeyError before anything is set
MakeMove(move) ==
  /\ pc = "idle"
  /\ lastOp' = "make_move"
  /\ lastArg' = <<move>>
  /\ ret' = NoneVal
  /\ OtherCall
  /\ IF Lookup(nodes, root, move).raises
     THEN /\ err' = "KeyError"
          /\ UNCHANGED <<root, gstates, committed, searched>>
     ELSE /\ Len(committed) < MaxCommits
          /\ err' = "none"
          /\ root' = AdvanceRoot(root, Lookup(nodes, root, move).node)
          /\ gstates' = DoMove(gstates, SelfState, move)
          /\ committed' = Append(committed, move)
          /\ searched' = FALSE
  /\ UNCHANGED <<nodes, simState, pc, simLeft, simDepth, L, cur, actions,
                 visited, iterOrder, net, thr, expanded, extended, simCount,
                 visits0>>

\* DFS_rollout_phase(state): the body is `pass`, the call returns None
DFS_rollout_phase ==
  /\ pc = "idle"
  /\ lastOp' = "DFS_rollout_phase"
  /\ lastArg' = <<>>
  /\ err' = "none"
  /\ ret' = NoneVal
  /\ OtherCall
  /\ UNCHANGED <<nodes, root, gstates, simState, pc, simLeft, simDepth, L, cur,
                 actions, visited, iterOrder, net, thr, committed, searched,
                 expanded, extended, simCount, visits0>>

Next ==
  \/ \E n \in 1..MaxSims, depth \in 0..MaxDepth : Simulation(n, depth)
  \/ LoopHead
  \/ \E pr \in [Moves -> PriorSet] : DFSBody(pr)
  \/ DFSReturn
  \/ \E v \in ValueSet : ValueEval(v)
  \/ \E r \in RolloutSet : RolloutEval(r)
  \/ GetMove
  \/ \E move \in CallMoves : MakeMove(move)
  \/ DFS_rollout_phase

Spec == Init /\ [][Next]_vars

SpecRandom == InitRandom /\ [][Next]_vars

\* one long call simulation(LongSims, depth) on a new engine, the rollout
\* policy answering 1 as the one of the test does
NextLong ==
  \/ \E depth \in 1..MaxDepth : SimulationUpTo(LongSims, depth, LongSims)
  \/ LoopHead
  \/ \E pr \in [Moves -> PriorSet] : DFSBody(pr)
  \/ DFSReturn
  \/ \E v \in ValueSet : ValueEval(v)
  \/ RolloutEval(PyInt(1))

SpecLong == Init /\ [][NextLong]_vars

PcSet == {"idle", "loop", "dfs", "value", "rollout"}

\* the loop of the running selection phase is not followed any further
Capped == pc = "dfs" /\ L > 0 /\ Len(visited) >= MaxPath

\* the single thread of a running simulation() call moves on to another
\* position (the while loop stays at "dfs" only for finitely many passes)
Going == pc # "idle" /\ ~Capped /\ pc' \in PcSet

\* a call that was made runs on until it returns or raises; nothing makes
\* the caller call again
SpecThr == InitThr /\ [][Next]_vars /\ WF_pc(Going)

----------------------------------------------------------------------------
(* Vocabulary of the properties *)

Range(f) == {f[x] : x \in DOMAIN f}

\* position of action a in the iteration order of the children dicts
Pos(a) == CHOOSE i \in 1..Len(iterOrder) : iterOrder[i] = a

\* the node the i-th visited node was selected from
ParentOf(i) == IF i < Len(visited) THEN visited[i + 1] ELSE root

\* the action under which node c hangs below node p
ActionOf(p, c) == CHOOSE a \in Keys(nodes, p) : nodes[p].children[a] = c

\* the largest prior of a policy list
MaxPrior(acts) ==
  CHOOSE x \in {acts[i][2] : i \in 1..Len(acts)} :
    \A i \in 1..Len(acts) : ~NumGT(acts[i][2], x)

\* the selection phase of the first iteration of a simulation() call made
\* on a fresh engine has just returned
FreshPhaseDone ==
  /\ pc = "value"
  /\ lastOp = "simulation"
  /\ simFresh
  /\ simLeft = lastArg[1]
  /\ simDepth >= 1

----------------------------------------------------------------------------
\* C1: on a fresh engine one selection phase of depth L >= 1 returns exactly
\* L nodes forming one path, newest first (each visited node is a child of
\* the next one, the last a child of the root), each with nVisits = 1, and
\* the depth is never extended.
C1_FreshPhasePath ==
  FreshPhaseDone =>
    /\ Len(visited) = simDepth
    /\ extended = 0
    /\ \A i \in 1..Len(visited) :
         /\ nodes[visited[i]].nVisits = 1
         /\ visited[i] \in Range(nodes[ParentOf(i)].children)

C1_Witness == FreshPhaseDone /\ Len(visited) = 2 /\ visited[1] # visited[2]

\* a selection step has just been made from node ParentOf(1) to visited[1]
StepDone == pc = "dfs" /\ visited # <<>>

\* C2: selection returns the child whose Q_value + u_value is maximal, the
\* first such child in iteration order, together with its action; on a node
\* expanded in this step from the policy's list that is an action of maximal
\* prior, and the child's toValue() equals that prior.
C2_SelectionMax ==
  StepDone =>
    LET p == ParentOf(1)
        c == visited[1]
        a == ActionOf(p, c)
    IN  /\ c = cur
        /\ gstates[simState].history[Len(gstates[simState].history)] = a
        /\ \A k \in Keys(nodes, p) :
             LET d == nodes[p].children[k]
             IN  /\ ~NumGT(toValue(nodes, d), toValue(nodes, c))
                 /\ NumEq(toValue(nodes, d), toValue(nodes, c))
                      => Pos(a) <= Pos(k)
        /\ expanded =>
             /\ \E i \in 1..Len(actions) :
                  actions[i][1] = a /\ actions[i][2] = MaxPrior(actions)
             /\ NumEq(toValue(nodes, c), MaxPrior(actions))

C2_Witness ==
  /\ StepDone
  /\ expanded
  /\ \E k \in Keys(nodes, ParentOf(1)) :
       /\ nodes[ParentOf(1)].children[k] # visited[1]
       /\ NumEq(toValue(nodes, nodes[ParentOf(1)].children[k]),
                toValue(nodes, visited[1]))

GotMove == lastOp = "get_move" /\ err = "none"

\* C3: get_move returns the action of the root child with the most visits,
\* whatever the Q values, and the first such child in iteration order.
C3_GetMoveMostVisited ==
  GotMove =>
    /\ ret[1] \in Keys(nodes, root)
    /\ \A k \in Keys(nodes, root) :
         LET d == nodes[root].children[k]
             c == nodes[root].children[ret[1]]
         IN  /\ nodes[d].nVisits <= nodes[c].nVisits
             /\ nodes[d].nVisits = nodes[c].nVisits => Pos(ret[1]) <= Pos(k)

\* the move returned is not the one of highest Q_value
C3_Witness ==
  /\ GotMove
  /\ \E k \in Keys(nodes, root) :
       NumGT(nodes[nodes[root].children[k]].Q_value,
             nodes[nodes[root].children[ret[1]]].Q_value)

\* C4: get_move returns a key of root.children whenever a simulation
\* (n >= 1, L >= 1) has returned since the root was set, and on a root that
\* is still a leaf it raises instead of returning a default.
C4_GetMoveKeyOrError ==
  /\ searched => ~isLeaf(nodes, root)
  /\ lastOp = "get_move" =>
       IF isLeaf(nodes, root)
       THEN err = "IndexError" /\ ret = NoneVal
       ELSE err = "none" /\ ret # NoneVal /\ ret[1] \in Keys(nodes, root)

\* a move is obtained from a search made after a committed move
C4_Witness == GotMove /\ searched /\ committed # <<>>

\* the position reached from s by the moves ms
RECURSIVE Play(_, _)
Play(s, ms) ==
  IF ms = <<>> THEN s
  ELSE Play([history |-> Append(s.history, Head(ms)),
             current_player |-> -s.current_player], Tail(ms))

\* the node reached from node id along the actions ms (0: there is none)
RECURSIVE Follow(_, _)
Follow(id, ms) ==
  IF ms = <<>> THEN id
  ELSE IF id = 0 \/ Head(ms) \notin Keys(nodes, id) THEN 0
       ELSE Follow(nodes[id].children[Head(ms)], Tail(ms))

\* the nodes reachable from the nodes of S through children
RECURSIVE Reach(_)
Reach(S) ==
  LET T == S \cup UNION {Range(nodes[id].children) : id \in S}
  IN  IF T = S THEN S ELSE Reach(T)

\* the nodes the engine and its running frames refer to
EngineRefs == ({root, cur} \cup Range(visited)) \ {0}

Front(ms) == SubSeq(ms, 1, Len(ms) - 1)

\* C5: the real state is the initial position with the committed moves
\* applied in order and the root is the node reached from the initial root
\* along them; the former root and its other children are unreachable.
C5_Lockstep ==
  /\ gstates[SelfState] = Play(InitState, committed)
  /\ root = Follow(1, committed)
  /\ committed # <<>> =>
       LET old == Follow(1, Front(committed))
       IN  /\ nodes[old].children[committed[Len(committed)]] = root
           /\ old \notin Reach(EngineRefs)
           /\ \A c \in Range(nodes[old].children) \ {root} :
                c \notin Reach(EngineRefs)

\* a simulation has run on the tree kept by a committed move
C5_Witness ==
  /\ committed # <<>>
  /\ pc = "loop"
  /\ visited # <<>>
  /\ simLeft = 0

\* a step of a running simulation() call
SimRunning == pc # "idle" \/ pc' # "idle"

\* the hypothetical state is the real one followed by the selected actions
RECURSIVE PathActions(_)
PathActions(i) ==
  IF i = 0 THEN <<>>
  ELSE Append(PathActions(i - 1),
              ActionOf(ParentOf(Len(visited) - i + 1), visited[Len(visited) - i + 1]))

\* C6: no step of simulation() changes self.state or self.root; each
\* selection phase starts at the root on a copy of self.state that is
\* another object, and the selected moves are made on that copy.
C6_SimulationFrame ==
  /\ [][SimRunning => /\ root' = root
                      /\ gstates'[SelfState] = gstates[SelfState]]_vars
  /\ [](pc = "dfs" /\ visited = <<>> => cur = root)
  /\ [](pc \in {"dfs", "value", "rollout"} =>
          /\ simState # SelfState
          /\ gstates[simState] =
               Play(gstates[SelfState], PathActions(Len(visited))))

C6_Witness == pc = "loop" /\ Len(visited) = 2 /\ committed # <<>>

\* C7: make_move with a move that is no key of root.children raises, and
\* leaves the root, the real state and the tree as they were.
C7_MakeMoveUnknown ==
  [][(pc = "idle" /\ lastOp' = "make_move"
        /\ lastArg'[1] \notin Keys(nodes, root))
       => /\ err' = "KeyError"
          /\ root' = root
          /\ gstates' = gstates
          /\ nodes' = nodes
          /\ committed' = committed]_vars

\* an unknown move is refused on a root that has children
C7_Witness ==
  /\ lastOp = "make_move"
  /\ err = "KeyError"
  /\ ~isLeaf(nodes, root)

RECURSIVE SumOver(_, _)
SumOver(f, S) ==
  IF S = {} THEN 0
  ELSE LET x == CHOOSE y \in S : TRUE IN f[x] + SumOver(f, S \ {x})

\* a simulation(n, L >= 1) call made on a fresh engine is at the head of
\* its loop or has returned
FreshSimBoundary ==
  /\ lastOp = "simulation"
  /\ err = "none"
  /\ simFresh
  /\ lastArg[2] >= 1
  /\ pc \in {"idle", "loop"}

\* C8: after simulation(n, L >= 1) on a fresh engine each child of the
\* root has as many visits as simulations chose it first; they sum to n.
C8_RootChildVisits ==
  FreshSimBoundary =>
    /\ \A k \in Keys(nodes, root) :
         nodes[nodes[root].children[k]].nVisits = firstSel[k]
    /\ SumOver([k \in Keys(nodes, root) |->
                  nodes[nodes[root].children[k]].nVisits], Keys(nodes, root))
         = lastArg[1] - simLeft

C8_Witness ==
  /\ FreshSimBoundary
  /\ pc = "idle"
  /\ lastArg[1] = 2
  /\ \A k \in Keys(nodes, root) : firstSel[k] = 1

\* the leaf formula with the exact means of the recorded signals
ExactLeafQ(h, id) ==
  NumAdd(NumMul(NumSub(PyInt(1), Lambda),
                TrueDiv(h[id].total_value_rewards, PyInt(h[id].nVisits))),
         NumMul(Lambda,
                TrueDiv(h[id].total_rollout_rewards, PyInt(h[id].nVisits))))

\* an iteration of simulation() has completed and ended at a leaf
IterationDoneAtLeaf ==
  pc = "loop" /\ visited # <<>> /\ isLeaf(nodes, visited[1])

\* C9: after a complete simulation the leaf's Q_value is
\* (1 - LAMBDA) * mean value + LAMBDA * mean rollout, with exact means.
C9_LeafQExactMeans ==
  IterationDoneAtLeaf =>
    NumEq(nodes[visited[1]].Q_value, ExactLeafQ(nodes, visited[1]))

\* C10: DFS_rollout_phase ends in an error, never in a silent return.
C10_RolloutPhaseRaises ==
  lastOp = "DFS_rollout_phase" => err # "none"

----------------------------------------------------------------------------
\* a simulation(n, L >= 1) call is at the head of its loop
AtLoopHead == pc = "loop" /\ simDepth >= 1

\* the call has returned with every iteration made
Completed == pc = "idle" /\ err = "none" /\ simLeft = 0

----------------------------------------------------------------------------
\* a pass through the loop of the selection phase
LoopPass == pc = "dfs" /\ pc' = "dfs" /\ visited' # visited

\* C12: a pass that leaves budget only decrements it; a pass that uses the
\* budget up ends the phase if the node just visited has nVisits <=
\* THRESHOLD (thr, 50) and otherwise leaves a budget of exactly 2; so a
\* phase returns L + 2k nodes, k the number of such extensions, and L nodes
\* in each of the first THRESHOLD iterations on a new engine.
C12_DepthExtension ==
  /\ [][LoopPass =>
          IF L > 1
          THEN L' = L - 1 /\ extended' = extended
          ELSE IF nodes'[visited'[1]].nVisits <= thr
               THEN L' = 0 /\ extended' = extended
               ELSE L' = 2 /\ extended' = extended + 1]_vars
  /\ [](pc = "value" => Len(visited) = simDepth + 2 * extended)
  /\ [](pc = "value" /\ simDepth >= 1 /\ simCount <= thr
          => Len(visited) = simDepth)

\* a phase that extended its depth has returned
C12_Witness ==
  /\ pc = "value"
  /\ extended = 1
  /\ Len(visited) = simDepth + 2
  /\ nodes[visited[3]].nVisits = thr + 1

----------------------------------------------------------------------------
\* the outcome of an evaluation is about to be recorded in visited[1]
Evaluating == pc \in {"value", "rollout"} /\ visited # <<>>

\* C13: the node in which the value and the rollout outcome are recorded,
\* the newest of the returned path, has no children when it is evaluated.
C13_PhaseEndsAtLeaf ==
  Evaluating => isLeaf(nodes, visited[1])

----------------------------------------------------------------------------
\* the nodes of the tree: those the root reaches
TreeNodes == Reach({root})

\* the exact sum of the Q values of the nodes of S
RECURSIVE QSum(_)
QSum(S) ==
  IF S = {} THEN PyInt(0)
  ELSE LET x == CHOOSE y \in S : TRUE
       IN  NumAdd(nodes[x].Q_value, QSum(S \ {x}))

\* the unweighted mean of the Q values of the children of node id
MeanChildQ(id) ==
  TrueDiv(QSum(Range(nodes[id].children)),
          PyInt(Cardinality(Range(nodes[id].children))))

\* no iteration of simulation() is under way
SimBoundary == pc \in {"idle", "loop"}

\* C14: when an iteration has ended, every node of its path that has
\* children has as Q_value the unweighted mean of its children's Q values
\* (a child never visited counting 0); between iterations that is so for
\* every node of the tree below the root that has children.
C14_BackupMean ==
  SimBoundary =>
    /\ \A i \in 1..Len(visited) :
         ~isLeaf(nodes, visited[i]) =>
           NumEq(nodes[visited[i]].Q_value, MeanChildQ(visited[i]))
    /\ \A id \in TreeNodes \ {root} :
         ~isLeaf(nodes, id) => NumEq(nodes[id].Q_value, MeanChildQ(id))

\* an iteration ended whose path passed through a node with a child never
\* visited and a child of positive Q_value
C14_Witness ==
  /\ pc = "loop"
  /\ Len(visited) = 2
  /\ NumGT(nodes[visited[2]].Q_value, PyInt(0))
  /\ \E c \in Range(nodes[visited[2]].children) : nodes[c].nVisits = 0
  /\ \E c \in Range(nodes[visited[2]].children) : nodes[c].nVisits = 2

----------------------------------------------------------------------------
\* C15: updateQ_value never divides by zero: no call ends in
\* ZeroDivisionError, and every node handed to backup has nVisits >= 1 and
\* is not the root.
C15_NoZeroDivision ==
  /\ err # "ZeroDivisionError"
  /\ pc \in {"value", "rollout", "loop"} =>
       \A i \in 1..Len(visited) :
         /\ nodes[visited[i]].nVisits >= 1
         /\ visited[i] # root

\* the first backup of a path has updated a node visited once, below a
\* node visited twice
C15_Witness ==
  /\ pc = "rollout"
  /\ Len(visited) = 2
  /\ nodes[visited[1]].nVisits = 1
  /\ nodes[visited[2]].nVisits = 2
  /\ NumGT(nodes[visited[1]].Q_value, PyInt(0))

----------------------------------------------------------------------------
\* C16: a leaf gets children only as the node a selection step stands on,
\* one new node per action of the policy's list of that step; a node that
\* has children keeps exactly those in every step; and in every state the
\* children of a node are distinct nodes, one per action.
C16_ExpandedOnce ==
  /\ [][\A id \in 1..Len(nodes) :
          IF isLeaf(nodes, id)
          THEN ~isLeaf(nodes', id) =>
                 /\ pc = "dfs"
                 /\ id = cur
                 /\ Keys(nodes', id) =
                      {actions'[i][1] : i \in 1..Len(actions')}
                 /\ \A a \in Keys(nodes', id) :
                      nodes'[id].children[a] > Len(nodes)
          ELSE nodes'[id].children = nodes[id].children]_vars
  /\ [](\A id \in 1..Len(nodes) :
          Cardinality(Range(nodes[id].children)) = Cardinality(Keys(nodes, id)))

\* a selection step has passed through a node below the root that already
\* had its children
C16_Witness ==
  /\ pc = "dfs"
  /\ Len(visited) = 2
  /\ ~expanded

----------------------------------------------------------------------------
\* nVisits of node id when the current iteration began (0: not yet made)
VisitsBefore(id) == IF id <= Len(visits0) THEN visits0[id] ELSE 0

\* the number of places node id has in visited
TimesVisited(id) == Cardinality({i \in 1..Len(visited) : visited[i] = id})

\* the selection phase of an iteration has returned
PhaseReturned == pc \in {"value", "rollout", "loop"} /\ visits0 # <<>>

\* C17: once the selection phase of an iteration has returned, and until
\* the next begins, every node of the returned path has nVisits one above
\* its value when the iteration began, every other node, the root among
\* them, has the same nVisits; and make_move changes no nVisits.
C17_VisitsFrame ==
  /\ [](PhaseReturned =>
          /\ \A id \in 1..Len(nodes) :
               nodes[id].nVisits =
                 VisitsBefore(id) + (IF id \in Range(visited) THEN 1 ELSE 0)
          /\ \A id \in Range(visited) : TimesVisited(id) = 1
          /\ root \notin Range(visited))
  /\ [][pc = "idle" /\ lastOp' = "make_move" =>
          /\ Len(nodes') = Len(nodes)
          /\ \A id \in 1..Len(nodes) :
               nodes'[id].nVisits = nodes[id].nVisits]_vars

\* an iteration has ended that visited a node for the second time and,
\* below it, a node it made
C17_Witness ==
  /\ pc = "loop"
  /\ Len(visited) = 2
  /\ VisitsBefore(visited[2]) = 1
  /\ visited[1] > Len(visits0)

----------------------------------------------------------------------------
\* C18: a make_move(a) that returns leaves every field of every node as it
\* was and makes the node that was root.children[a] the root, so that
\* node keeps its statistics and its whole subtree.
C18_TreeReuse ==
  [][pc = "idle" /\ lastOp' = "make_move" /\ err' = "none" =>
       /\ nodes' = nodes
       /\ lastArg'[1] \in Keys(nodes, root)
       /\ root' = nodes[root].children[lastArg'[1]]]_vars

\* the move committed leads to a node visited twice that has children
C18_Witness ==
  /\ lastOp = "make_move"
  /\ err = "none"
  /\ nodes[root].nVisits = 2
  /\ ~isLeaf(nodes, root)
  /\ \E c \in Range(nodes[root].children) : nodes[c].nVisits >= 1

----------------------------------------------------------------------------
\* the sum of nVisits over the children of node id
ChildVisits(id) ==
  SumOver([c \in Range(nodes[id].children) |-> nodes[c].nVisits],
          Range(nodes[id].children))

\* C19: every node of the tree other than the root has at least as many
\* visits as its children have together, and at least one if it has
\* children.
C19_VisitConservation ==
  \A id \in TreeNodes \ {root} :
    /\ nodes[id].nVisits >= ChildVisits(id)
    /\ ~isLeaf(nodes, id) => nodes[id].nVisits >= 1

\* below the root kept by a committed move a node has more visits than its
\* children, which have some
C19_Witness ==
  /\ committed # <<>>
  /\ \E id \in TreeNodes \ {root} :
       /\ ChildVisits(id) >= 1
       /\ nodes[id].nVisits > ChildVisits(id)

----------------------------------------------------------------------------
\* nVisits of the child c of the node just selected from, as it was when
\* selection() was called
VisitsAtSelection(c) ==
  IF c = visited[1] THEN nodes[c].nVisits - 1 ELSE nodes[c].nVisits

\* C20: at every selection step each child named in the policy's list
\* went into selection() with u_value = prior / (1 + nVisits), for the
\* prior of that list and its nVisits of that moment; so the bonus of a
\* child visited before is below its prior.
C20_BonusRecomputed ==
  StepDone =>
    \A i \in 1..Len(actions) :
      LET c == nodes[ParentOf(1)].children[actions[i][1]]
      IN  /\ NumEq(nodes[c].u_value,
                   TrueDiv(actions[i][2], PyInt(1 + VisitsAtSelection(c))))
          /\ VisitsAtSelection(c) >= 1 =>
               NumGT(actions[i][2], nodes[c].u_value)

\* a selection was made below the root among a child visited before and
\* a child never visited
C20_Witness ==
  /\ StepDone
  /\ Len(visited) = 2
  /\ \E c \in Range(nodes[ParentOf(1)].children) : VisitsAtSelection(c) = 1
  /\ \E c \in Range(nodes[ParentOf(1)].children) : VisitsAtSelection(c) = 0

====
